---- MODULE Spec2Model ----
(***************************************************************************)
(* Living Story Game Engine: the session state kept by the App component   *)
(* (src/types.ts) and the upstream calls of the gemini service             *)
(* (src/unnamed/part_000).                                                 *)
(*                                                                         *)
(* A text is a sequence of tokens.  The three bracketed markers are single *)
(* tokens (no marker overlaps another, so a regular expression that looks  *)
(* for a literal marker sees exactly the marker tokens); NL is the line    *)
(* feed, SP any other white space, a digit token is a decimal digit, DOT   *)
(* the full stop and every other token an ordinary character.              *)
(***************************************************************************)
EXTENDS Integers, Sequences, FiniteSets, Bags, TLC

VARIABLES
    status,       \* AppStatus of the component
    state,        \* the StoryState object
    videoUrl,     \* the video reference
    setupReqs,    \* bag: handleSetupSubmit calls awaiting generateStoryContent
    choiceReqs,   \* bag: handleChoice calls awaiting generateStoryContent
    narrReqs,     \* bag: playNarration calls awaiting generateNarration
    videoReqs,    \* bag: createVideoMemory calls inside generateVideoMemory
    imageReqs,    \* bag: generateSceneImage promises not yet settled
    notice,       \* what the last step showed (alert) and logged (console.error)
    text,         \* a response text handed to the parser
    parsed        \* Some(snapshot) once the parser has run on text

vars == <<status, state, videoUrl, setupReqs, choiceReqs, narrReqs, videoReqs,
          imageReqs, notice, text, parsed>>

(***************************************************************************)
(* Bounds of the model.                                                    *)
(***************************************************************************)
\* longest response text enumerated token by token
MaxLen == 4
\* longest choice section enumerated behind a three-marker text
MaxTail == 5
\* operations in flight at once when the user starts another one
MaxInFlight == 2
\* exchanges (a choice and its response) a session goes through
MaxExchanges == 2

(***************************************************************************)
(* Optional values (an absent field of StoryState is undefined).           *)
(***************************************************************************)
None == <<>>
Some(v) == <<v>>
IsSome(o) == o # <<>>
Val(o) == o[1]

(***************************************************************************)
(* Tokens.                                                                 *)
(***************************************************************************)
SceneMarker == "[SCENE]"
ActionsMarker == "[CHARACTER ACTIONS]"
ChoicesMarker == "[CHOICES]"
NL == "<LF>"
SP == " "
DOT == "."
Digits == {"1", "2"}
Markers == {SceneMarker, ActionsMarker, ChoicesMarker}
IsSpace(t) == t \in {NL, SP}

\* "The void stretches before you."
DefaultScene == <<"The void stretches before you.">>
\* ["Search for meaning...", "Call out to the darkness..."]
DefaultChoices == << <<"Search for meaning...">>, <<"Call out to the darkness...">> >>

(***************************************************************************)
(* String primitives of the parser.                                        *)
(***************************************************************************)
\* s.slice(from - 1), 1-based: the tokens from position `from` on
DropTo(s, from) == SubSeq(s, from, Len(s))

SetMin(S) == CHOOSE m \in S : \A n \in S : m <= n
SetMax(S) == CHOOSE m \in S : \A n \in S : n <= m

\* String.prototype.trim
Trim(s) ==
    LET keep == {i \in 1..Len(s) : ~IsSpace(s[i])}
    IN  IF keep = {} THEN <<>> ELSE SubSeq(s, SetMin(keep), SetMax(keep))

\* String.prototype.split('\n'): always at least one piece
RECURSIVE SplitLines(_)
SplitLines(s) ==
    LET nls == {i \in 1..Len(s) : s[i] = NL}
    IN  IF nls = {} THEN <<s>>
        ELSE LET i == SetMin(nls)
             IN  <<SubSeq(s, 1, i - 1)>> \o SplitLines(DropTo(s, i + 1))

IsDigit(t) == t \in Digits

\* the length of the longest prefix of s made of digits (greedy \d+)
LeadingDigits(s) ==
    LET stop == {i \in 1..Len(s) : ~IsDigit(s[i])}
    IN  IF stop = {} THEN Len(s) ELSE SetMin(stop) - 1

\* the length of the longest prefix of s made of white space (greedy \s*)
LeadingSpaces(s) ==
    LET stop == {i \in 1..Len(s) : ~IsSpace(s[i])}
    IN  IF stop = {} THEN Len(s) ELSE SetMin(stop) - 1

\* c.replace(/^\d+\.\s*/, '')
StripNumber(c) ==
    LET nd == LeadingDigits(c)
    IN  IF nd > 0 /\ Len(c) > nd /\ c[nd + 1] = DOT
        THEN LET rest == DropTo(c, nd + 2)
             IN  DropTo(rest, LeadingSpaces(rest) + 1)
        ELSE c

(***************************************************************************)
(* The three regular expressions of parseAndSetStory.  A match is          *)
(* Some(group 1), no match is None.                                        *)
(***************************************************************************)
\* group 1 of /<marker>([\s\S]*?)(?=<stops>|$)/: from behind the first
\* marker to the first following stop marker, or to the end of the text
LazyGroup(t, marker, stops) ==
    LET at == {i \in 1..Len(t) : t[i] = marker}
    IN  IF at = {} THEN None
        ELSE LET i == SetMin(at)
                 ends == {j \in (i + 1)..Len(t) : t[j] \in stops}
                 j == IF ends = {} THEN Len(t) + 1 ELSE SetMin(ends)
             IN  Some(SubSeq(t, i + 1, j - 1))

SceneMatch(t) == LazyGroup(t, SceneMarker, {ActionsMarker, ChoicesMarker})
ActionsMatch(t) == LazyGroup(t, ActionsMarker, {ChoicesMarker})
ChoicesMatch(t) == LazyGroup(t, ChoicesMarker, {})

NonBlank(c) == Len(Trim(c)) > 0
StripAndTrim(c) == Trim(StripNumber(c))

\* ParseScene with the empty text in place of the default scene
ParseSceneWithoutDefault(t) ==
    IF IsSome(SceneMatch(t)) THEN Trim(Val(SceneMatch(t))) ELSE <<>>

ParseScene(t) ==
    IF IsSome(SceneMatch(t)) THEN Trim(Val(SceneMatch(t))) ELSE DefaultScene

ParseActions(t) ==
    IF IsSome(ActionsMatch(t)) THEN Trim(Val(ActionsMatch(t))) ELSE <<>>

ParseChoices(t) ==
    IF IsSome(ChoicesMatch(t))
    THEN LET lines == SelectSeq(SplitLines(Trim(Val(ChoicesMatch(t)))), NonBlank)
         IN  [i \in 1..Len(lines) |-> StripAndTrim(lines[i])]
    ELSE DefaultChoices

\* the snapshot parseAndSetStory derives from a response text
Parse(t) ==
    [scene |-> ParseScene(t), actions |-> ParseActions(t), choices |-> ParseChoices(t)]

(***************************************************************************)
(* The upstream service (geminiService).                                   *)
(***************************************************************************)
\* the role-tagged contents generateStoryContent sends for (prompt, history)
RequestContents(prompt, history) ==
    [i \in 1..Len(history) |->
        [role |-> IF history[i].role = "user" THEN "user" ELSE "model",
         text |-> history[i].content]]
    \o <<[role |-> "user", text |-> prompt]>>

\* the data URL generateSceneImage returns for the scene it was asked to draw
DataUrl(scene) == [kind |-> "image", of |-> scene]

\* the object URL generateVideoMemory returns for its prompt
ObjectUrl(scene) == [kind |-> "video", of |-> scene]

(***************************************************************************)
(* Inputs.                                                                 *)
(***************************************************************************)
Genres == {<<"Noir">>}
Tones == {<<"Dark & Gritty">>}
Roles == {<<"Rogue">>}

\* response texts of the upstream generator: one in the strict format, and
\* one without character actions whose scene and choice sections are blank
Responses ==
    { <<SceneMarker, NL, "a", NL, ActionsMarker, NL, "b", NL,
        ChoicesMarker, NL, "1", DOT, SP, "x", NL, "2", DOT, SP, "y">>,
      <<SceneMarker, NL, ChoicesMarker, NL>> }

(***************************************************************************)
(* The App component.                                                      *)
(***************************************************************************)
InitialState ==
    [genre |-> <<>>, tone |-> <<>>, playerRole |-> <<>>, history |-> <<>>,
     currentScene |-> None, currentActions |-> None, currentChoices |-> None,
     visualUrl |-> None, isInitialSetup |-> TRUE, isLoading |-> FALSE]

\* what a step tells the user (alert) and the console (console.error, by the
\* operation whose error it is)
Quiet == [alert |-> "", logged |-> ""]
Logged(op) == [alert |-> "", logged |-> op]
Alerted(op, msg) == [alert |-> msg, logged |-> op]

BagAdd(B, e) == B (+) SetToBag({e})
BagRemove(B, e) == B (-) SetToBag({e})

\* operations in flight
InFlight ==
    BagCardinality(setupReqs) + BagCardinality(choiceReqs)
    + BagCardinality(narrReqs) + BagCardinality(videoReqs)
    + BagCardinality(imageReqs)

\* SetLoading with the update forgotten
SetLoadingForgotten(s) == s

\* setState(prev => ({ ...prev, isLoading: true }))
SetLoading(s) == [s EXCEPT !.isLoading = TRUE]

\* ClearLoading with the finally block forgotten
ClearLoadingForgotten(s) == s

\* setState(prev => ({ ...prev, isLoading: false })) of the finally blocks
ClearLoading(s) == [s EXCEPT !.isLoading = FALSE]

\* InitialPrompt with the player role left out of the template
InitialPromptWithoutRole(s) ==
    <<"Initialize a new game. Genre: ">> \o s.genre \o <<". Tone: ">> \o s.tone
    \o <<". Start the first scene.">>

\* the initialPrompt template of handleSetupSubmit
InitialPrompt(s) ==
    <<"Initialize a new game. Genre: ">> \o s.genre \o <<". Tone: ">> \o s.tone
    \o <<". My role: ">> \o s.playerRole \o <<". Start the first scene.">>

\* NewHistory with the user turn left out
NewHistoryWithoutChoice(history, choice) == history

\* [...state.history, { role: 'user', content: choice }]
NewHistory(history, choice) ==
    Append(history, [role |-> "user", content |-> choice])

\* a state update that keeps the previous actions when the response has none
ParseAndSetStoryKeepingActions(s, t, newHistory) ==
    [s EXCEPT !.currentScene = Some(ParseScene(t)),
              !.currentActions =
                  IF ParseActions(t) = <<>> /\ IsSome(s.currentActions)
                  THEN s.currentActions ELSE Some(ParseActions(t)),
              !.currentChoices = Some(ParseChoices(t)),
              !.history = Append(newHistory, [role |-> "model", content |-> t])]

\* the state update of parseAndSetStory(text, newHistory)
ParseAndSetStory(s, t, newHistory) ==
    [s EXCEPT !.currentScene = Some(ParseScene(t)),
              !.currentActions = Some(ParseActions(t)),
              !.currentChoices = Some(ParseChoices(t)),
              !.history = Append(newHistory, [role |-> "model", content |-> t])]

\* an image request that cancels the image requests of the earlier scenes
IssueImageCancellingEarlier(B, scene) == SetToBag({[scene |-> scene]})

\* the promise parseAndSetStory leaves behind: generateSceneImage(scene)
IssueImage(B, scene) == BagAdd(B, [scene |-> scene])

\* an image handler that also ends the loading state
ApplyImageClearingLoading(s, url) ==
    IF IsSome(url) THEN [s EXCEPT !.visualUrl = url, !.isLoading = FALSE] ELSE s

\* if (url) setState(prev => ({ ...prev, visualUrl: url }))
ApplyImage(s, url) == IF IsSome(url) THEN [s EXCEPT !.visualUrl = url] ELSE s

\* a guard that lets narration and video start without a scene
HasSceneUnchecked(s) == IsSome(s.currentScene)

\* !state.currentScene is false: the scene is neither undefined nor ''
HasScene(s) == IsSome(s.currentScene) /\ Val(s.currentScene) # <<>>

\* the choices rendered as ChoiceButtons
ShownChoices(s) ==
    IF IsSome(s.currentChoices)
    THEN {Val(s.currentChoices)[i] : i \in 1..Len(Val(s.currentChoices))}
    ELSE {}

Init ==
    /\ status = "SETUP"
    /\ state = InitialState
    /\ videoUrl = None
    /\ setupReqs = EmptyBag
    /\ choiceReqs = EmptyBag
    /\ narrReqs = EmptyBag
    /\ videoReqs = EmptyBag
    /\ imageReqs = EmptyBag
    /\ notice = Quiet
    /\ text = <<>>
    /\ parsed = None

\* onChange of the three setup inputs
EditSetup ==
    /\ status = "SETUP"
    /\ \/ \E v \in Genres : state' = [state EXCEPT !.genre = v]
       \/ \E v \in Tones : state' = [state EXCEPT !.tone = v]
       \/ \E v \in Roles : state' = [state EXCEPT !.playerRole = v]
    /\ notice' = Quiet
    /\ UNCHANGED <<status, videoUrl, setupReqs, choiceReqs,
                   narrReqs, videoReqs, imageReqs, text, parsed>>

\* handleSetupSubmit up to its await (the form's inputs are `required`)
HandleSetupSubmit ==
    /\ status = "SETUP"
    /\ state.genre # <<>> /\ state.tone # <<>> /\ state.playerRole # <<>>
    /\ InFlight < MaxInFlight
    /\ state' = SetLoading(state)
    /\ setupReqs' = BagAdd(setupReqs,
                       [prompt |-> InitialPrompt(state),
                        contents |-> RequestContents(InitialPrompt(state), <<>>)])
    /\ notice' = Quiet
    /\ UNCHANGED <<status, videoUrl, choiceReqs, narrReqs,
                   videoReqs, imageReqs, text, parsed>>

\* handleSetupSubmit: generateStoryContent resolved with text t
SetupOk ==
    \E r \in BagToSet(setupReqs), t \in Responses :
        /\ setupReqs' = BagRemove(setupReqs, r)
        /\ state' = ClearLoading(ParseAndSetStory(state, t, <<>>))
        /\ imageReqs' = IssueImage(imageReqs, ParseScene(t))
        /\ status' = "PLAYING"
        /\ notice' = Quiet
        /\ UNCHANGED <<videoUrl, choiceReqs, narrReqs, videoReqs,
                       text, parsed>>

\* handleSetupSubmit: generateStoryContent rejected
SetupFail ==
    \E r \in BagToSet(setupReqs) :
        /\ setupReqs' = BagRemove(setupReqs, r)
        /\ state' = ClearLoading(state)
        /\ notice' = Alerted("setup", "Error starting game. Check console.")
        /\ UNCHANGED <<status, videoUrl, choiceReqs, narrReqs,
                       videoReqs, imageReqs, text, parsed>>

\* handleChoice up to its await; a ChoiceButton is disabled while isLoading
HandleChoice ==
    \E c \in ShownChoices(state) :
        /\ status = "PLAYING"
        /\ ~state.isLoading
        /\ InFlight < MaxInFlight
        /\ Len(state.history) < 2 * MaxExchanges + 1
        /\ state' = SetLoading(state)
        /\ videoUrl' = None
        /\ choiceReqs' = BagAdd(choiceReqs,
                            [choice |-> c,
                             before |-> state.history,
                             newHistory |-> NewHistory(state.history, c),
                             contents |-> RequestContents(c, NewHistory(state.history, c))])
        /\ notice' = Quiet
        /\ UNCHANGED <<status, setupReqs, narrReqs, videoReqs,
                       imageReqs, text, parsed>>

\* handleChoice: generateStoryContent resolved with text t
ChoiceOk ==
    \E r \in BagToSet(choiceReqs), t \in Responses :
        /\ choiceReqs' = BagRemove(choiceReqs, r)
        /\ state' = ClearLoading(ParseAndSetStory(state, t, r.newHistory))
        /\ imageReqs' = IssueImage(imageReqs, ParseScene(t))
        /\ notice' = Quiet
        /\ UNCHANGED <<status, videoUrl, setupReqs, narrReqs,
                       videoReqs, text, parsed>>

\* handleChoice: generateStoryContent rejected
ChoiceFail ==
    \E r \in BagToSet(choiceReqs) :
        /\ choiceReqs' = BagRemove(choiceReqs, r)
        /\ state' = ClearLoading(state)
        /\ notice' = Logged("choice")
        /\ UNCHANGED <<status, videoUrl, setupReqs, narrReqs,
                       videoReqs, imageReqs, text, parsed>>

\* playNarration up to its await; the button is not disabled while isLoading
PlayNarration ==
    /\ status = "PLAYING"
    /\ IF ~HasScene(state)
       THEN UNCHANGED <<state, narrReqs>>
       ELSE /\ InFlight < MaxInFlight
            /\ state' = SetLoading(state)
            /\ narrReqs' = BagAdd(narrReqs, [scene |-> Val(state.currentScene)])
    /\ notice' = Quiet
    /\ UNCHANGED <<status, videoUrl, setupReqs, choiceReqs, videoReqs,
                   imageReqs, text, parsed>>

\* playNarration: generateNarration resolved; with audio data the buffer is
\* decoded and played, without it nothing is, and neither touches the state
NarrationOk ==
    \E r \in BagToSet(narrReqs) :
        /\ narrReqs' = BagRemove(narrReqs, r)
        /\ state' = ClearLoading(state)
        /\ notice' = Quiet
        /\ UNCHANGED <<status, videoUrl, setupReqs, choiceReqs, videoReqs,
                       imageReqs, text, parsed>>

\* playNarration: generateNarration or decodeAudioData rejected
NarrationFail ==
    \E r \in BagToSet(narrReqs) :
        /\ narrReqs' = BagRemove(narrReqs, r)
        /\ state' = ClearLoading(state)
        /\ notice' = Logged("narration")
        /\ UNCHANGED <<status, videoUrl, setupReqs, choiceReqs, videoReqs,
                       imageReqs, text, parsed>>

\* createVideoMemory up to its await; the button is not disabled either
CreateVideoMemory ==
    /\ status = "PLAYING"
    /\ IF ~HasScene(state)
       THEN UNCHANGED <<state, videoReqs>>
       ELSE /\ InFlight < MaxInFlight
            /\ state' = SetLoading(state)
            /\ videoReqs' = BagAdd(videoReqs,
                               [scene |-> Val(state.currentScene), pc |-> "generate"])
    /\ notice' = Quiet
    /\ UNCHANGED <<status, videoUrl, setupReqs, choiceReqs, narrReqs,
                   imageReqs, text, parsed>>

\* generateVideoMemory: generateVideos, or a getVideosOperation of the loop
\* `while (!operation.done)`, returned an operation.  Not done: the loop
\* waits and polls again.  Done with a download link: the video is fetched.
\* Done without one: null is returned and createVideoMemory finishes.
VideoPoll ==
    \E r \in BagToSet(videoReqs), operation \in {"not done", "done, link", "done, no link"} :
        /\ r.pc \in {"generate", "poll"}
        /\ IF operation = "not done"
           THEN /\ videoReqs' = BagAdd(BagRemove(videoReqs, r), [r EXCEPT !.pc = "poll"])
                /\ UNCHANGED state
           ELSE IF operation = "done, link"
           THEN /\ videoReqs' = BagAdd(BagRemove(videoReqs, r), [r EXCEPT !.pc = "fetch"])
                /\ UNCHANGED state
           ELSE /\ videoReqs' = BagRemove(videoReqs, r)
                /\ state' = ClearLoading(state)
        /\ notice' = Quiet
        /\ UNCHANGED <<status, videoUrl, setupReqs, choiceReqs, narrReqs,
                       imageReqs, text, parsed>>

\* createVideoMemory: generateVideoMemory resolved with an object URL
VideoOk ==
    \E r \in BagToSet(videoReqs) :
        /\ r.pc = "fetch"
        /\ videoReqs' = BagRemove(videoReqs, r)
        /\ videoUrl' = Some(ObjectUrl(r.scene))
        /\ state' = ClearLoading(state)
        /\ notice' = Quiet
        /\ UNCHANGED <<status, setupReqs, choiceReqs, narrReqs, imageReqs,
                       text, parsed>>

\* createVideoMemory: an await of generateVideoMemory rejected
VideoFail ==
    \E r \in BagToSet(videoReqs) :
        /\ videoReqs' = BagRemove(videoReqs, r)
        /\ state' = ClearLoading(state)
        /\ notice' = Alerted("video", "Video generation failed. Ensure your API key has Veo access.")
        /\ UNCHANGED <<status, videoUrl, setupReqs, choiceReqs, narrReqs,
                       imageReqs, text, parsed>>

\* the promise of generateSceneImage settles: a URL, null, or a rejection
\* nobody handles
ImageSettles ==
    \E r \in BagToSet(imageReqs) : \E url \in {Some(DataUrl(r.scene)), None} :
        /\ imageReqs' = BagRemove(imageReqs, r)
        /\ state' = ApplyImage(state, url)
        /\ notice' = Quiet
        /\ UNCHANGED <<status, videoUrl, setupReqs, choiceReqs, narrReqs,
                       videoReqs, text, parsed>>

Next ==
    \/ EditSetup
    \/ HandleSetupSubmit
    \/ SetupOk
    \/ SetupFail
    \/ HandleChoice
    \/ ChoiceOk
    \/ ChoiceFail
    \/ PlayNarration
    \/ NarrationOk
    \/ NarrationFail
    \/ CreateVideoMemory
    \/ VideoPoll
    \/ VideoOk
    \/ VideoFail
    \/ ImageSettles

Spec == Init /\ [][Next]_vars

\* a poll of generateVideoMemory's loop finds operation.done set
VideoReportsDone ==
    /\ VideoPoll
    /\ videoReqs' # videoReqs
    /\ \A r \in DOMAIN videoReqs' :
          r.pc = "poll" => r \in DOMAIN videoReqs /\ videoReqs'[r] <= videoReqs[r]

\* The upstream answers: every await of generateStoryContent,
\* generateNarration and generateVideoMemory resolves or rejects, and the
\* polling loop gets a done operation.  Nothing is assumed of the image
\* promise nor of the user.
FairSpec ==
    /\ Spec
    /\ WF_vars(SetupOk \/ SetupFail)
    /\ WF_vars(ChoiceOk \/ ChoiceFail)
    /\ WF_vars(NarrationOk \/ NarrationFail)
    /\ WF_vars(VideoReportsDone \/ VideoFail)
    /\ WF_vars(VideoOk \/ VideoFail)

(***************************************************************************)
(* The parser on its own: every text up to MaxLen tokens, and the texts    *)
(* with the three markers in order whose choice section has up to MaxTail  *)
(* tokens.                                                                 *)
(***************************************************************************)
Seqs(S, n) == UNION {[1..k -> S] : k \in 0..n}

Alphabet == Markers \cup {NL, SP, "1", DOT, "x"}
Plain == {NL, SP, "1", DOT, "x"}
Sections == {<<>>, <<SP, "x", NL>>}

ThreeMarkerTexts ==
    {<<SceneMarker>> \o a \o <<ActionsMarker>> \o b \o <<ChoicesMarker>> \o c :
        a \in Sections, b \in Sections, c \in Seqs(Plain, MaxTail)}

Texts == Seqs(Alphabet, MaxLen) \cup ThreeMarkerTexts

InitParse ==
    /\ status = "SETUP"
    /\ state = InitialState
    /\ videoUrl = None
    /\ setupReqs = EmptyBag
    /\ choiceReqs = EmptyBag
    /\ narrReqs = EmptyBag
    /\ videoReqs = EmptyBag
    /\ imageReqs = EmptyBag
    /\ notice = Quiet
    /\ text \in Texts
    /\ parsed = None

\* the first statements of parseAndSetStory, applied to text
ParseText ==
    /\ parsed = None
    /\ parsed' = Some(Parse(text))
    /\ UNCHANGED <<status, state, videoUrl, setupReqs, choiceReqs, narrReqs,
                   videoReqs, imageReqs, notice, text>>

NextParse == ParseText

ParseSpec == InitParse /\ [][NextParse]_vars

(***************************************************************************)
(* Notions the properties are stated with.                                 *)
(***************************************************************************)
Range(s) == {s[i] : i \in 1..Len(s)}

\* the requests of bag B that a step to bag B2 has taken out
RemovedFrom(B, B2) ==
    IF B2 = B THEN {} ELSE {r \in DOMAIN B : r \notin DOMAIN B2 \/ B2[r] < B[r]}

\* the requests a step from bag B to bag B2 has put in
AddedTo(B, B2) ==
    IF B2 = B THEN {} ELSE {r \in DOMAIN B2 : r \notin DOMAIN B \/ B2[r] > B[r]}

\* a history as the role-tagged messages of a request
AsMessages(h) == [i \in 1..Len(h) |-> [role |-> h[i].role, text |-> h[i].content]]

\* narrative requests (startSession, advance) awaiting the generator
NarrativeOutstanding == BagCardinality(setupReqs) + BagCardinality(choiceReqs)

\* handler operations (all but the image promise) awaiting the upstream
OpsOutstanding ==
    NarrativeOutstanding + BagCardinality(narrReqs) + BagCardinality(videoReqs)

\* history, current scene, actions, choices and visual reference
SessionFields(s) ==
    <<s.history, s.currentScene, s.currentActions, s.currentChoices, s.visualUrl>>

\* the text of the last turn of the stored history
LastText == state.history[Len(state.history)].content

\* the [CHOICES] marker is missing from t, or only white space follows it
ChoiceSectionMissingOrBlank(t) ==
    \/ ChoicesMarker \notin Range(t)
    \/ LET c == SetMin({i \in 1..Len(t) : t[i] = ChoicesMarker})
       IN  \A j \in (c + 1)..Len(t) : IsSpace(t[j])

\* field occurs in txt
Embeds(txt, field) ==
    /\ field # <<>>
    /\ \E i \in {j \in 1..Len(txt) : txt[j] = field[1]} :
          i + Len(field) - 1 <= Len(txt) /\ SubSeq(txt, i, i + Len(field) - 1) = field

EmbedsSetup(txt) ==
    \E f \in Genres \cup Tones \cup Roles : Embeds(txt, f)

\* a video operation is inside the polling loop
VideoPolling == \E r \in BagToSet(videoReqs) : r.pc = "poll"

C2_RequestIsHistoryPlusChoice ==
    \A r \in BagToSet(choiceReqs) :
        r.contents = AsMessages(r.before) \o <<[role |-> "user", text |-> r.choice]>>

(***************************************************************************)
(* C3: once a response has been parsed the choice list is never empty, and *)
(* it is the two-option default when the response has no [CHOICES] marker  *)
(* or nothing but blank lines behind it.                                   *)
(***************************************************************************)
C3_ChoicesNeverEmpty ==
    IsSome(state.currentChoices) =>
        /\ Val(state.currentChoices) # <<>>
        /\ ChoiceSectionMissingOrBlank(LastText) =>
              Val(state.currentChoices) = DefaultChoices

(***************************************************************************)
(* C4: at most one narrative request is outstanding, and while one is      *)
(* outstanding isLoading is true (so that no choice is accepted).          *)
(***************************************************************************)
C4_OneNarrativeRequest ==
    /\ NarrativeOutstanding <= 1
    /\ NarrativeOutstanding = 1 => state.isLoading

C6_FailureShowsNotice == notice.logged # "" => notice.alert # ""

(***************************************************************************)
(* C7: while a video operation is polling, the player can still submit a   *)
(* choice (the choice buttons are not disabled).                           *)
(***************************************************************************)
C7_VideoLeavesChoicesEnabled ==
    (VideoPolling /\ status = "PLAYING" /\ ShownChoices(state) # {}) =>
        ~state.isLoading

(***************************************************************************)
(* C7 as amended: starting a video sets isLoading; a choice is accepted    *)
(* only while isLoading is false; and while a video is polling the flag is *)
(* cleared only by a step in which some handler operation ends.  A poll    *)
(* that finds the video not done changes nothing.                          *)
(***************************************************************************)
C7_VideoBlocksChoices ==
    [][ /\ BagCardinality(videoReqs') > BagCardinality(videoReqs) => state'.isLoading
        /\ BagCardinality(choiceReqs') > BagCardinality(choiceReqs) => ~state.isLoading
        /\ (VideoPolling /\ state.isLoading /\ ~state'.isLoading) =>
              OpsOutstanding' < OpsOutstanding
      ]_vars

\* only a polling video is outstanding, and the shown choices are disabled
C7_Witness ==
    /\ VideoPolling
    /\ OpsOutstanding = 1
    /\ ShownChoices(state) # {}
    /\ state.isLoading

(***************************************************************************)
(* C8: for a text with the markers [SCENE], [CHARACTER ACTIONS] and        *)
(* [CHOICES], once each and in that order, the scene is the trimmed text   *)
(* between the first two, the actions the trimmed text between the last    *)
(* two, and the choices the non-blank lines behind [CHOICES], in order,    *)
(* each without its leading number and dot.                                *)
(***************************************************************************)
MarkerAt(t, m) == CHOOSE i \in 1..Len(t) : t[i] = m

MarkersOnceInOrder(t) ==
    /\ \A m \in Markers : Cardinality({i \in 1..Len(t) : t[i] = m}) = 1
    /\ MarkerAt(t, SceneMarker) < MarkerAt(t, ActionsMarker)
    /\ MarkerAt(t, ActionsMarker) < MarkerAt(t, ChoicesMarker)

WithoutNumber(line) == Trim(StripNumber(Trim(line)))

C8_ThreeMarkersParsed ==
    (IsSome(parsed) /\ MarkersOnceInOrder(text)) =>
        LET s == MarkerAt(text, SceneMarker)
            a == MarkerAt(text, ActionsMarker)
            c == MarkerAt(text, ChoicesMarker)
        IN  /\ Val(parsed).scene = Trim(SubSeq(text, s + 1, a - 1))
            /\ Val(parsed).actions = Trim(SubSeq(text, a + 1, c - 1))
            /\ Val(parsed).choices =
                  LET lines == SelectSeq(SplitLines(DropTo(text, c + 1)), NonBlank)
                  IN  [i \in 1..Len(lines) |-> WithoutNumber(lines[i])]

(***************************************************************************)
(* C9: parsing yields a snapshot for every text; without the [SCENE]       *)
(* marker the scene is the default scene, without the [CHARACTER ACTIONS]  *)
(* marker the actions are the empty text.                                  *)
(***************************************************************************)
SnapshotTokens == Alphabet \cup Range(DefaultScene) \cup UNION {Range(c) : c \in Range(DefaultChoices)}

C9_ParsingTotal ==
    IsSome(parsed) =>
        /\ Val(parsed).scene \in Seq(SnapshotTokens)
        /\ Val(parsed).actions \in Seq(SnapshotTokens)
        /\ Val(parsed).choices \in Seq(Seq(SnapshotTokens))
        /\ SceneMarker \notin Range(text) => Val(parsed).scene = DefaultScene
        /\ ActionsMarker \notin Range(text) => Val(parsed).actions = <<>>

\* the empty text has been parsed
C9_Witness == IsSome(parsed) /\ text = <<>>

(***************************************************************************)
(* C10: startSession sends one user message that embeds genre, tone and    *)
(* player role, and no history; its success stores a history of exactly    *)
(* one turn, the model turn with the raw response; the setup fields are    *)
(* in no stored turn and in no message of a later request.                 *)
(***************************************************************************)
C10_StartSession ==
    [][ /\ \A r \in AddedTo(setupReqs, setupReqs') :
              /\ Len(r.contents) = 1
              /\ r.contents[1].role = "user"
              /\ \A f \in {state.genre, state.tone, state.playerRole} :
                    Embeds(r.contents[1].text, f)
        /\ (RemovedFrom(setupReqs, setupReqs') # {} /\ notice'.logged = "") =>
              /\ Len(state'.history) = 1
              /\ state'.history[1].role = "model"
              /\ state'.history[1].content \in Responses
        /\ state'.history # state.history =>
              \A i \in 1..Len(state'.history) : ~EmbedsSetup(state'.history[i].content)
        /\ \A r \in AddedTo(choiceReqs, choiceReqs') :
              \A i \in 1..Len(r.contents) : ~EmbedsSetup(r.contents[i].text)
      ]_vars

\* a session has started and a later request is on its way
C10_Witness ==
    /\ Len(state.history) = 1
    /\ choiceReqs # EmptyBag
    /\ setupReqs = EmptyBag

(***************************************************************************)
(* C11: the request of every advance carries, in order, every turn stored  *)
(* by the earlier exchanges: the request begins with the whole history     *)
(* stored when it is issued, and an advance that succeeds keeps every turn *)
(* that was stored before it, so that no later request can miss one.       *)
(***************************************************************************)
IsPrefix(h, h2) == Len(h) <= Len(h2) /\ SubSeq(h2, 1, Len(h)) = h

C11_RequestCarriesEarlierTurns ==
    [][ /\ \A r \in AddedTo(choiceReqs, choiceReqs') :
              IsPrefix(AsMessages(state.history), r.contents)
        /\ (RemovedFrom(choiceReqs, choiceReqs') # {} /\ notice'.logged = "") =>
              IsPrefix(state.history, state'.history)
      ]_vars

(***************************************************************************)
(* C12: whenever the history is not empty its last turn is a model turn,   *)
(* and the current scene, actions and choices are the three results of     *)
(* parsing the content of that turn; nothing of an earlier snapshot stays. *)
(***************************************************************************)
C12_SnapshotOfLastTurn ==
    state.history # <<>> =>
        /\ state.history[Len(state.history)].role = "model"
        /\ state.currentScene = Some(ParseScene(LastText))
        /\ state.currentActions = Some(ParseActions(LastText))
        /\ state.currentChoices = Some(ParseChoices(LastText))

\* a response without actions has replaced a snapshot that had actions
C12_Witness ==
    /\ Len(state.history) = 3
    /\ ParseActions(state.history[1].content) # <<>>
    /\ state.currentActions = Some(<<>>)

(***************************************************************************)
(* C13: a step in which an image request settles changes nothing but the   *)
(* visual reference: history, scene, actions, choices, isLoading, the      *)
(* setup fields, the app status, the video reference and the requests of   *)
(* the handlers stay as they are; if the visual reference changes it       *)
(* becomes the image of the settled request, and a settlement without an   *)
(* image (null result) changes nothing of the state.                       *)
(***************************************************************************)
ImageSettled == BagCardinality(imageReqs') < BagCardinality(imageReqs)

C13_ImageTouchesOnlyVisual ==
    [][ ImageSettled =>
          /\ [state' EXCEPT !.visualUrl = state.visualUrl] = state
          /\ \/ state' = state
             \/ \E r \in RemovedFrom(imageReqs, imageReqs') :
                    state'.visualUrl = Some(DataUrl(r.scene))
          /\ UNCHANGED <<status, videoUrl, setupReqs, choiceReqs, narrReqs, videoReqs>>
      ]_vars

\* an image has arrived while a later advance is awaiting its response
C13_Witness ==
    /\ IsSome(state.visualUrl)
    /\ choiceReqs # EmptyBag
    /\ imageReqs = EmptyBag
    /\ state.isLoading

SceneSectionBlank(t) ==
    /\ SceneMarker \in Range(t)
    /\ LET s == SetMin({i \in 1..Len(t) : t[i] = SceneMarker})
       IN  \A j \in (s + 1)..Len(t) : IsSpace(t[j])

C15_SceneNeverEmpty ==
    IsSome(parsed) =>
        /\ Val(parsed).scene # <<>>
        /\ SceneSectionBlank(text) => Val(parsed).scene = DefaultScene

(***************************************************************************)
(* C16: no entry of the parsed choice list is the empty string; a line     *)
(* that is only a number and a dot gives no entry.                         *)
(***************************************************************************)
C16_ChoicesNonEmpty ==
    IsSome(parsed) =>
        \A i \in 1..Len(Val(parsed).choices) : Val(parsed).choices[i] # <<>>

(***************************************************************************)
(* C17: after every step the stored history is empty or of odd length,     *)
(* begins and ends with a model turn and alternates between model and user *)
(* turns; and no step modifies or removes a turn that was stored before.   *)
(***************************************************************************)
Alternating(h) ==
    /\ h # <<>> => Len(h) % 2 = 1
    /\ \A i \in 1..Len(h) : h[i].role = IF i % 2 = 1 THEN "model" ELSE "user"

C17_HistoryAlternatesAndGrows ==
    [][ /\ Alternating(state'.history)
        /\ IsPrefix(state.history, state'.history)
      ]_vars

(***************************************************************************)
(* C18: a step of a narration or of a video operation (its start, a poll,  *)
(* its success with or without a payload, its failure) leaves the history, *)
(* scene, actions, choices, visual reference, setup fields and app status  *)
(* as they are: of the state it changes at most isLoading, and the video   *)
(* reference only when a video operation succeeds with a video.  While     *)
(* there is no current scene no narration and no video is started and      *)
(* isLoading is set only by the start of a narrative request.              *)
(***************************************************************************)
NarrationOrVideoStep == narrReqs' # narrReqs \/ videoReqs' # videoReqs

NoCurrentScene == state.currentScene \in {None, Some(<<>>)}

C18_NarrationAndVideoFrame ==
    [][ /\ NarrationOrVideoStep =>
              /\ [state' EXCEPT !.isLoading = state.isLoading] = state
              /\ UNCHANGED <<status, setupReqs, choiceReqs, imageReqs>>
              /\ videoUrl' # videoUrl =>
                    /\ notice'.logged = ""
                    /\ \E r \in RemovedFrom(videoReqs, videoReqs') :
                          r.pc = "fetch" /\ videoUrl' = Some(ObjectUrl(r.scene))
        /\ NoCurrentScene =>
              /\ AddedTo(narrReqs, narrReqs') = {}
              /\ \A r \in AddedTo(videoReqs, videoReqs') : r.pc # "generate"
              /\ (state'.isLoading /\ ~state.isLoading) =>
                    NarrativeOutstanding' > NarrativeOutstanding
      ]_vars

\* a video has been made and stored, and the session is as the last
\* response left it
C18_Witness ==
    /\ IsSome(videoUrl)
    /\ OpsOutstanding = 0
    /\ ~state.isLoading
    /\ Len(state.history) = 3
    /\ IsSome(state.visualUrl)

(***************************************************************************)
(* C19: when the upstream answers every call and every video operation     *)
(* reports done, each state with an operation pending is followed by a     *)
(* state in which isLoading is false and no operation is pending; the      *)
(* image request is not counted and need never settle.                     *)
(***************************************************************************)
AtRest == OpsOutstanding = 0 /\ ~state.isLoading

C19_EveryOperationComesToRest == (OpsOutstanding > 0) ~> AtRest

\* what does hold: the session comes to rest in every behaviour in which,
\* from some point on, no further operation is started
OperationStarts == OpsOutstanding' > OpsOutstanding

RestOnceStartsStop ==
    (<>[][~OperationStarts]_vars) => ((OpsOutstanding > 0) ~> AtRest)

====
